---- MODULE Spec2Model ----
(***************************************************************************)
(* The netcode.io server of src/rust/src/server/mod.rs: the client table,  *)
(* the admission handshake (ConnectionRequest -> Challenge -> Response),   *)
(* the per-client packet handler and the event loop of next_event.         *)
(*                                                                         *)
(* The packet codec, the token module and the socket are collaborators of  *)
(* the server whose code is not part of mod.rs.  They are modelled          *)
(* symbolically: a sealed blob is a record that names the key it was        *)
(* sealed under, and unsealing succeeds exactly when the keys agree.        *)
(***************************************************************************)
EXTENDS Integers, Sequences, FiniteSets, TLC

(***************************************************************************)
(* Bounds of the model.                                                    *)
(***************************************************************************)
\* max_clients of Server::new: the capacity of the client table.
MaxClients == 2
\* Client ids for which the token authority has issued a connect token.
NumClients == 3
\* Distinct source addresses datagrams arrive from.
NumAddrs == 3
\* Cap on send_sequence and challenge_sequence (u64 in the code).
MaxSeq == 3
\* The server time stays within MaxUpdates timeout periods of its start.
MaxUpdates == 1
\* Wall clock readings and token expiry stamps range over 0..MaxUtc.
MaxUtc == 1
\* Payload lengths range over 1..MaxPayload.
MaxPayload == 2

(***************************************************************************)
(* Constants of the program.                                               *)
(***************************************************************************)
\* common::NETCODE_TIMEOUT_SECONDS, read by process_timeout (mod.rs:430).
NETCODE_TIMEOUT_SECONDS == 5
\* common::NETCODE_VERSION_STRING, compared at mod.rs:354.
NETCODE_VERSION_STRING == "NETCODE 1.00"

Slots == 1..MaxClients
ClientIds == 1..NumClients
Addrs == 1..NumAddrs
UtcTimes == 0..MaxUtc
PayloadLens == 1..MaxPayload
\* elapsed arguments of update: no time, or just more than the timeout, or
\* as much backwards (elapsed is an f64 that update does not inspect).
Elapsed == {0, NETCODE_TIMEOUT_SECONDS + 1, -(NETCODE_TIMEOUT_SECONDS + 1)}
MaxTime == MaxUpdates * (NETCODE_TIMEOUT_SECONDS + 1)

(***************************************************************************)
(* Option<T> is the empty set (None) or a singleton (Some(v)).             *)
(***************************************************************************)
None == {}
Some(v) == {v}
Unwrap(o) == CHOOSE v \in o : TRUE

(***************************************************************************)
(* Keys.  connect_key is the server's private key, challenge_key the key   *)
(* generated at construction; a connect token for client c carries the     *)
(* pair of session keys of c.                                              *)
(***************************************************************************)
ConnectKey == <<"connect", 0>>
ChallengeKey == <<"challenge", 0>>
ForgedKey == <<"forged", 0>>
ClientToServerKey(c) == <<"c2s", c>>
ServerToClientKey(c) == <<"s2c", c>>

VARIABLES
    clients,            \* Server.clients: Slots -> Option<Connection>
    time,               \* Server.time
    send_sequence,      \* Server.send_sequence
    challenge_sequence, \* Server.challenge_sequence
    client_event_idx,   \* Server.client_event_idx
    pc,                 \* where the host thread is: "host", "ingress", "check"
    recv,               \* what recv_from returned in this loop iteration
    now,                \* Option: what token::get_time_now() returned
    result,             \* the loop's local `result` / the value returned
    out                 \* datagrams handed to send_to in this loop iteration

vars == <<clients, time, send_sequence, challenge_sequence, client_event_idx,
          pc, recv, now, result, out>>


(***************************************************************************)
(* Connections and their states (server::connection).                      *)
(***************************************************************************)
\* RetryState::new(time)
RetryStateNew(t) == [last_update |-> t, last_retry |-> 0, retry_count |-> 0]

PendingResponse(retry) == [tag |-> "PendingResponse", retry |-> retry]
Idle(retry) == [tag |-> "Idle", retry |-> retry]
Connected == [tag |-> "Connected"]
Disconnected == [tag |-> "Disconnected"]
TimedOut == [tag |-> "TimedOut"]

(***************************************************************************)
(* ServerEvent, and the Result<Option<ServerEvent>, UpdateError> values.   *)
(***************************************************************************)
ClientConnect(id) == [type |-> "ClientConnect", client_id |-> id]
ClientDisconnect(id) == [type |-> "ClientDisconnect", client_id |-> id]
ClientSlotFull == [type |-> "ClientSlotFull"]
Packet(id, len) == [type |-> "Packet", client_id |-> id, len |-> len]

Ok(ev) == [tag |-> "Ok", event |-> ev]
Err(e) == [tag |-> "Err", err |-> e]
\* No value: the local `result` is not bound at this point of the loop.
NoResult == [tag |-> "Unset"]

(***************************************************************************)
(* Datagrams a peer can put on the wire.                                   *)
(***************************************************************************)
Versions == {NETCODE_VERSION_STRING, "NETCODE 1.01"}

\* The sealed private part of a connect token.  The authority seals one
\* under connect_key for every client; a peer that does not know connect_key
\* can only present a blob sealed under another key.
GenuineBlobs == [key : {ConnectKey}, client_id : ClientIds]
ForgedBlob == [key |-> ForgedKey, client_id |-> 1]

\* Requests of the server's version with any expiry stamp and any blob, and
\* requests of another version that are acceptable in everything else.
ConnectionRequests ==
    [kind : {"ConnectionRequest"}, version : {NETCODE_VERSION_STRING},
     token_expire : UtcTimes, private_data : GenuineBlobs \cup {ForgedBlob}]
    \cup [kind : {"ConnectionRequest"}, version : Versions \ {NETCODE_VERSION_STRING},
          token_expire : {MaxUtc}, private_data : GenuineBlobs]

ClientKeys == {ClientToServerKey(c) : c \in ClientIds}

\* A challenge token unseals under challenge_key only if the server sealed
\* it, which it did for the clients in `known`.
ChallengeTokens(known) ==
    [key : {ChallengeKey}, client_id : known]
    \cup {[key |-> ForgedKey, client_id |-> 0]}

\* Packets sealed under the client_to_server_key of some connect token.
SealedPackets(known) ==
    [kind : {"KeepAlive", "Disconnect"}, key : ClientKeys]
    \cup [kind : {"Payload"}, key : ClientKeys, len : PayloadLens]
    \cup [kind : {"Response"}, key : ClientKeys, token : ChallengeTokens(known)]

\* A datagram of length 0.
EmptyDatagram == [kind |-> "Empty"]

Datagrams(known) ==
    ConnectionRequests \cup SealedPackets(known) \cup {EmptyDatagram}

(***************************************************************************)
(* The codec and the token module.                                         *)
(***************************************************************************)
\* packet::decode(data, protocol_id, key, out): Some(packet) or None (Err).
\* A ConnectionRequest is framed in the clear; every other kind unseals
\* under the key given, and fails when there is none or it is another key.
PacketDecode(data, key) ==
    IF data.kind = "Empty" THEN None
    ELSE IF data.kind = "ConnectionRequest" THEN Some(data)
    ELSE IF key # None /\ data.key = Unwrap(key) THEN Some(data)
    ELSE None

\* token::PrivateData::decode(private_data, protocol_id, expire, sequence, key)
PrivateDataDecode(blob, expire, key) ==
    IF blob.key = key
    THEN Some([client_id |-> blob.client_id,
               server_to_client_key |-> ServerToClientKey(blob.client_id),
               client_to_server_key |-> ClientToServerKey(blob.client_id)])
    ELSE None

\* packet::ChallengePacket::generate(client_id, user_data, sequence, key)
ChallengeGenerate(client_id, sequence, key) ==
    [kind |-> "Challenge", token_sequence |-> sequence,
     token |-> [key |-> key, client_id |-> client_id]]

\* ResponsePacket::decode(challenge_key)
ResponseDecode(resp, key) ==
    IF resp.token.key = key THEN Some([client_id |-> resp.token.client_id])
    ELSE None

\* packet::encode(buf, protocol_id, packet, Some((sequence, key)), None)
\* followed by send_to(addr): what is handed to the socket, and whether the
\* socket took it.
Sent(addr, packet, sequence, key, ok) ==
    [to |-> addr, packet |-> packet, sequence |-> sequence, key |-> key,
     ok |-> ok]

(***************************************************************************)
(* The client table.                                                       *)
(***************************************************************************)
Min(S) == CHOOSE x \in S : \A y \in S : x <= y

\* iter().position(pred): the first index that satisfies pred.
Position(S) == IF S = {} THEN None ELSE Some(Min(S))

Occupied(cl) == {i \in Slots : cl[i] # None}

\* Faulty variant: only connections still in PendingResponse are found.
\* C1 does not hold of it.
FindClientByIdPendingOnly(cl, id) ==
    Position({i \in Occupied(cl) :
                 /\ Unwrap(cl[i]).client_id = id
                 /\ Unwrap(cl[i]).state.tag = "PendingResponse"})

FindClientById(cl, id) ==
    Position({i \in Occupied(cl) : Unwrap(cl[i]).client_id = id})

FindClientByAddr(cl, addr) ==
    Position({i \in Occupied(cl) : Unwrap(cl[i]).addr = addr})

\* Faulty variant: the last empty slot.  C2 does not hold of it.
LastEmptySlot(cl) ==
    IF Slots \ Occupied(cl) = {} THEN None
    ELSE Some(CHOOSE i \in Slots \ Occupied(cl) :
                  \A j \in Slots \ Occupied(cl) : j <= i)

\* self.clients.iter().position(|v| v.is_none())
FirstEmptySlot(cl) == Position(Slots \ Occupied(cl))

(***************************************************************************)
(* validate_client_token                                                   *)
(***************************************************************************)
\* if now > req.token_expire { return None }
TokenExpired(nowv, token_expire) == nowv > token_expire

\* The packet decodes as a ConnectionRequest of the right version, so that
\* token::get_time_now() is called.
ReadsClock(data) ==
    /\ PacketDecode(data, None) # None
    /\ Unwrap(PacketDecode(data, None)).kind = "ConnectionRequest"
    /\ Unwrap(PacketDecode(data, None)).version = NETCODE_VERSION_STRING

\* Faulty variant: the version is not compared.  C6 does not hold of it.
ValidateAnyVersion(data, nowv) ==
    LET decoded == PacketDecode(data, None) IN
    IF decoded = None THEN None
    ELSE LET req == Unwrap(decoded) IN
         IF req.kind # "ConnectionRequest" THEN None
         ELSE IF TokenExpired(nowv, req.token_expire) THEN None
         ELSE PrivateDataDecode(req.private_data, req.token_expire, ConnectKey)

ValidateClientToken(data, nowv) ==
    LET decoded == PacketDecode(data, None) IN
    IF decoded = None THEN None
    ELSE LET req == Unwrap(decoded) IN
         IF req.kind # "ConnectionRequest" THEN None
         ELSE IF req.version # NETCODE_VERSION_STRING THEN None
         ELSE IF TokenExpired(nowv, req.token_expire) THEN None
         ELSE PrivateDataDecode(req.private_data, req.token_expire, ConnectKey)

(***************************************************************************)
(* send_packet and send_denied_packet.  Each yields the new send_sequence,  *)
(* whether it returned Ok, and what it handed to the socket.                *)
(***************************************************************************)
\* Faulty variant: the packet is encoded before send_sequence is incremented.
\* C7 does not hold of it.
SendPacketStaleSequence(cl, ss, client_id, packet, sendOk) ==
    LET idx == FindClientById(cl, client_id) IN
    IF idx # None
    THEN LET client == Unwrap(cl[Unwrap(idx)]) IN
         [send_sequence |-> ss + 1,
          res |-> IF sendOk THEN "Ok" ELSE "SocketError",
          out |-> <<Sent(client.addr, packet, ss,
                         client.server_to_client_key, sendOk)>>]
    ELSE [send_sequence |-> ss + 1, res |-> "InvalidClientId", out |-> <<>>]

SendPacket(cl, ss, client_id, packet, sendOk) ==
    LET sequence == ss + 1
        idx == FindClientById(cl, client_id)
    IN  IF idx # None
        THEN LET client == Unwrap(cl[Unwrap(idx)]) IN
             [send_sequence |-> sequence,
              res |-> IF sendOk THEN "Ok" ELSE "SocketError",
              out |-> <<Sent(client.addr, packet, sequence,
                             client.server_to_client_key, sendOk)>>]
        ELSE [send_sequence |-> sequence, res |-> "InvalidClientId",
              out |-> <<>>]

\* Faulty variant: send_sequence is used but not incremented.  C4 does not
\* hold of it.
SendDeniedNoIncrement(ss, addr, key, sendOk) ==
    [send_sequence |-> ss,
     res |-> IF sendOk THEN "Ok" ELSE "SocketError",
     out |-> <<Sent(addr, [kind |-> "ConnectionDenied"], ss, key, sendOk)>>]

SendDeniedPacket(ss, addr, key, sendOk) ==
    [send_sequence |-> ss + 1,
     res |-> IF sendOk THEN "Ok" ELSE "SocketError",
     out |-> <<Sent(addr, [kind |-> "ConnectionDenied"], ss + 1, key, sendOk)>>]

(***************************************************************************)
(* handle_client_connect.  A handler yields the fields of the server it    *)
(* leaves behind, the Result it returns and the datagrams it sent.         *)
(***************************************************************************)
Outcome(cl, ss, cs, res, o) ==
    [clients |-> cl, send_sequence |-> ss, challenge_sequence |-> cs,
     result |-> res, out |-> o]

\* A repeated request for a client the table holds (lines 258-268).
RetryExisting(cl, idx) ==
    LET client == Unwrap(cl[idx]) IN
    IF client.state.tag = "PendingResponse"
    THEN [cl EXCEPT ![idx] = Some([client EXCEPT
              !.state.retry.last_retry = 0,
              !.state.retry.retry_count = @ + 1])]
    ELSE cl

\* Faulty variant: the retry record is stamped one second ahead of the
\* server time.  C16 does not hold of it.
NewConnectionStampedAhead(private_data, t, addr) ==
    [client_id |-> private_data.client_id,
     state |-> PendingResponse(RetryStateNew(t + 1)),
     server_to_client_key |-> private_data.server_to_client_key,
     client_to_server_key |-> private_data.client_to_server_key,
     addr |-> addr]

\* The connection a request creates (lines 273-279).
NewConnection(private_data, t, addr) ==
    [client_id |-> private_data.client_id,
     state |-> PendingResponse(RetryStateNew(t)),
     server_to_client_key |-> private_data.server_to_client_key,
     client_to_server_key |-> private_data.client_to_server_key,
     addr |-> addr]

\* Lines 292-303: the challenge is generated and sent, ClientConnect returned.
IssueChallenge(cl, ss, cs, client_id, sendOk) ==
    LET sequence == cs + 1
        challenge == ChallengeGenerate(client_id, sequence, ChallengeKey)
        sent == SendPacket(cl, ss, client_id, challenge, sendOk)
    IN  Outcome(cl, sent.send_sequence, sequence,
                IF sent.res = "Ok" THEN Ok(Some(ClientConnect(client_id)))
                ELSE Err("SendError"),
                sent.out)

HandleClientConnect(cl, t, ss, cs, addr, data, nowv, sendOk) ==
    LET validated == ValidateClientToken(data, nowv) IN
    IF validated = None THEN Outcome(cl, ss, cs, Ok(None), <<>>)
    ELSE
      LET private_data == Unwrap(validated)
          existing == FindClientById(cl, private_data.client_id)
          open == FirstEmptySlot(cl)
      IN  IF existing # None
          THEN IssueChallenge(RetryExisting(cl, Unwrap(existing)), ss, cs,
                              private_data.client_id, sendOk)
          ELSE IF open # None
          THEN IssueChallenge(
                   [cl EXCEPT ![Unwrap(open)] =
                        Some(NewConnection(private_data, t, addr))],
                   ss, cs, private_data.client_id, sendOk)
          ELSE LET sent == SendDeniedPacket(ss, addr,
                               private_data.server_to_client_key, sendOk)
               IN  Outcome(cl, sent.send_sequence, cs,
                           IF sent.res = "Ok" THEN Ok(Some(ClientSlotFull))
                           ELSE Err("SendError"),
                           sent.out)

(***************************************************************************)
(* handle_packet: the connection it leaves and the Result it returns.      *)
(***************************************************************************)
Handled(client, res) == [client |-> client, result |-> res]

\* Faulty variant: the decode error is propagated and the connection kept.
\* C8 does not hold of it.
DecodeFailureAsError(client) == Handled(client, Err("PacketError"))

\* Lines 457-465: the packet does not decode under client_to_server_key.
DecodeFailure(client) ==
    Handled([client EXCEPT !.state = Disconnected],
            Ok(Some(ClientDisconnect(client.client_id))))

\* Faulty variant: a KeepAlive leaves the retry record as it is.  C19 does
\* not hold of it.
HandleEstablishedKeepAliveIgnored(t, client, decoded) ==
    IF decoded.kind = "Payload"
    THEN Handled([client EXCEPT !.state = Idle(RetryStateNew(t))],
                 Ok(Some(Packet(client.client_id, decoded.len))))
    ELSE IF decoded.kind = "KeepAlive"
    THEN Handled(client, Ok(None))
    ELSE Handled([client EXCEPT !.state = Disconnected],
                 Ok(Some(ClientDisconnect(client.client_id))))

\* Lines 469-480: a decoded packet for a Connected or Idle connection.
HandleEstablished(t, client, decoded) ==
    IF decoded.kind = "Payload"
    THEN Handled([client EXCEPT !.state = Idle(RetryStateNew(t))],
                 Ok(Some(Packet(client.client_id, decoded.len))))
    ELSE IF decoded.kind = "KeepAlive"
    THEN Handled([client EXCEPT !.state = Idle(RetryStateNew(t))], Ok(None))
    ELSE Handled([client EXCEPT !.state = Disconnected],
                 Ok(Some(ClientDisconnect(client.client_id))))

\* Faulty variant: the retry record of the handshake is carried into Idle.
\* C3 does not hold of it.
HandlePendingKeepsRetry(t, client, decoded) ==
    IF decoded.kind = "Response"
    THEN LET token == ResponseDecode(decoded, ChallengeKey) IN
         IF token = None THEN Handled(client, Err("Internal"))
         ELSE Handled([client EXCEPT !.state = Idle(client.state.retry)],
                      Ok(Some(ClientConnect(Unwrap(token).client_id))))
    ELSE Handled([client EXCEPT !.state = Disconnected],
                 Ok(Some(ClientDisconnect(client.client_id))))

\* Lines 481-496: a decoded packet for a connection in PendingResponse.
HandlePending(t, client, decoded) ==
    IF decoded.kind = "Response"
    THEN LET token == ResponseDecode(decoded, ChallengeKey) IN
         IF token = None THEN Handled(client, Err("Internal"))
         ELSE Handled([client EXCEPT !.state = Idle(RetryStateNew(t))],
                      Ok(Some(ClientConnect(Unwrap(token).client_id))))
    ELSE Handled([client EXCEPT !.state = Disconnected],
                 Ok(Some(ClientDisconnect(client.client_id))))

\* Faulty variant: a decoded packet is handled as for an established
\* connection whatever the state.  C20 does not hold of it.
HandlePacketAnyState(t, client, data) ==
    IF data.kind = "Empty" THEN Handled(client, Ok(None))
    ELSE
      LET decoded == PacketDecode(data, Some(client.client_to_server_key)) IN
      IF decoded = None THEN DecodeFailure(client)
      ELSE HandleEstablished(t, client, Unwrap(decoded))

\* handle_packet (lines 444-503).
HandlePacket(t, client, data) ==
    IF data.kind = "Empty" THEN Handled(client, Ok(None))
    ELSE
      LET decoded == PacketDecode(data, Some(client.client_to_server_key)) IN
      IF decoded = None THEN DecodeFailure(client)
      ELSE IF client.state.tag \in {"Connected", "Idle"}
      THEN HandleEstablished(t, client, Unwrap(decoded))
      ELSE IF client.state.tag = "PendingResponse"
      THEN HandlePending(t, client, Unwrap(decoded))
      ELSE Handled(client, Ok(None))

(***************************************************************************)
(* handle_io                                                               *)
(***************************************************************************)
HandleIo(cl, t, ss, cs, addr, data, nowv, sendOk) ==
    LET idx == FindClientByAddr(cl, addr) IN
    IF idx = None
    THEN HandleClientConnect(cl, t, ss, cs, addr, data, nowv, sendOk)
    ELSE LET h == HandlePacket(t, Unwrap(cl[Unwrap(idx)]), data) IN
         Outcome([cl EXCEPT ![Unwrap(idx)] = Some(h.client)], ss, cs,
                 h.result, <<>>)

(***************************************************************************)
(* The state machine.  The host thread is outside the server ("host"), at  *)
(* the recv_from of next_event's ingress loop ("ingress", line 194) or at  *)
(* the test of the loop's result ("check", line 202).                      *)
(***************************************************************************)
\* What recv_from returned.
NoRecv == [tag |-> "Unset"]
RecvOk(addr, data) == [tag |-> "Ok", addr |-> addr, data |-> data]
RecvWouldBlock == [tag |-> "WouldBlock"]
RecvErr == [tag |-> "Err"]

\* Server::new
Init ==
    /\ clients = [i \in Slots |-> None]
    /\ time = 0
    /\ send_sequence = 0
    /\ challenge_sequence = 0
    /\ client_event_idx = 0
    /\ pc = "host"
    /\ recv = NoRecv
    /\ now = None
    /\ result = NoResult
    /\ out = <<>>

\* update(elapsed, block_duration)
Update(elapsed) ==
    /\ pc = "host"
    /\ time + elapsed >= 0
    /\ time + elapsed <= MaxTime
    /\ time' = time + elapsed
    /\ UNCHANGED <<clients, send_sequence, challenge_sequence,
                   client_event_idx, pc, recv, now, result, out>>

\* next_event is entered.  out_packet is a [u8; NETCODE_MAX_PACKET_SIZE], so
\* the length test of line 188 never fails.
CallNextEvent ==
    /\ pc = "host"
    /\ pc' = "ingress"
    /\ result' = NoResult
    /\ UNCHANGED <<clients, time, send_sequence, challenge_sequence,
                   client_event_idx, recv, now, out>>

\* The clients a challenge token has been generated for (line 294 runs for
\* every connection the table holds, when it is created).
Challenged(cl) == {Unwrap(cl[i]).client_id : i \in Occupied(cl)}

\* recv_from returns a datagram and handle_io handles it (lines 194-195).
\* clock is what token::get_time_now() returns if it is called, sendOk
\* whether send_to succeeds if it is called.
Receive(addr, data, clock, sendOk) ==
    /\ LET o == HandleIo(clients, time, send_sequence, challenge_sequence,
                         addr, data, clock, sendOk)
       IN  /\ o.send_sequence <= MaxSeq
           /\ o.challenge_sequence <= MaxSeq
           /\ clients' = o.clients
           /\ send_sequence' = o.send_sequence
           /\ challenge_sequence' = o.challenge_sequence
           /\ result' = o.result
           /\ out' = o.out
    /\ recv' = RecvOk(addr, data)
    /\ now' = IF FindClientByAddr(clients, addr) = None /\ ReadsClock(data)
              THEN Some(clock) ELSE None
    /\ pc' = "check"
    /\ UNCHANGED <<time, client_event_idx>>

Unbound(cl) == {addr \in Addrs : FindClientByAddr(cl, addr) = None}

\* A datagram from an address of no connection that passes
\* validate_client_token.
RecvConnect ==
    /\ pc = "ingress"
    /\ \E addr \in Unbound(clients), data \in ConnectionRequests,
          clock \in UtcTimes, sendOk \in BOOLEAN :
            /\ ValidateClientToken(data, clock) # None
            /\ Receive(addr, data, clock, sendOk)

\* A datagram from an address of no connection that validate_client_token
\* rejects.  Nothing is sent.
RecvRejected ==
    /\ pc = "ingress"
    /\ \E addr \in Unbound(clients), data \in Datagrams(Challenged(clients)),
          clock \in UtcTimes :
            /\ ValidateClientToken(data, clock) = None
            /\ ReadsClock(data) \/ clock = 0
            /\ Receive(addr, data, clock, TRUE)

\* A datagram from the address of a connection.  The clock is not read and
\* nothing is sent.
RecvFromClient ==
    /\ pc = "ingress"
    /\ \E addr \in Addrs \ Unbound(clients),
          data \in Datagrams(Challenged(clients)) :
            Receive(addr, data, 0, TRUE)

\* recv_from fails with WouldBlock: the match yields Ok(None) (line 197).
RecvNothing ==
    /\ pc = "ingress"
    /\ recv' = RecvWouldBlock
    /\ result' = Ok(None)
    /\ pc' = "check"
    /\ UNCHANGED <<clients, time, send_sequence, challenge_sequence,
                   client_event_idx, now, out>>

\* recv_from fails with another error: the match yields Err (line 198).
RecvFails ==
    /\ pc = "ingress"
    /\ recv' = RecvErr
    /\ result' = Err("SocketError")
    /\ pc' = "check"
    /\ UNCHANGED <<clients, time, send_sequence, challenge_sequence,
                   client_event_idx, now, out>>

IsEvent(res) == res.tag = "Ok" /\ res.event # None

\* if let Ok(Some(_)) = result { return result } (lines 202-204)
ReturnEvent ==
    /\ pc = "check"
    /\ IsEvent(result)
    /\ pc' = "host"
    /\ recv' = NoRecv
    /\ now' = None
    /\ out' = <<>>
    /\ UNCHANGED <<clients, time, send_sequence, challenge_sequence,
                   client_event_idx, result>>

\* Any other result: the loop of line 192 has no other exit and starts over.
LoopAgain ==
    /\ pc = "check"
    /\ ~IsEvent(result)
    /\ pc' = "ingress"
    /\ recv' = NoRecv
    /\ now' = None
    /\ out' = <<>>
    /\ result' = NoResult
    /\ UNCHANGED <<clients, time, send_sequence, challenge_sequence,
                   client_event_idx>>

Next ==
    \/ \E elapsed \in Elapsed : Update(elapsed)
    \/ CallNextEvent
    \/ RecvConnect
    \/ RecvRejected
    \/ RecvFromClient
    \/ RecvNothing
    \/ RecvFails
    \/ ReturnEvent
    \/ LoopAgain

Spec == Init /\ [][Next]_vars

(***************************************************************************)
(* tick_client and process_timeout.                                        *)
(***************************************************************************)
\* const RETRY_TIMEOUT: f64 = 1.0
RETRY_TIMEOUT == 1

\* process_timeout(time, state, send_func): whether the connection is still
\* alive, and the retry record it leaves.  send_func is empty at both calls.
ProcessTimeout(t, state) ==
    IF state.last_update + NETCODE_TIMEOUT_SECONDS <= t
    THEN [alive |-> FALSE, state |-> state]
    ELSE [alive |-> TRUE,
          state |-> IF \/ state.last_retry > RETRY_TIMEOUT
                       \/ (state.last_retry = 0 /\ state.retry_count = 0)
                    THEN [state EXCEPT !.last_retry = 0]
                    ELSE state]

\* What a tick leaves: the connection, the remove flag and the event (the
\* Option<Result<ServerEvent, UpdateError>> is never Some(Err)).
Ticked(client, remove, event) ==
    [client |-> client, remove |-> remove, event |-> event]

TickClient(t, client) ==
    LET client_id == 0 IN
    IF client.state.tag = "PendingResponse"
    THEN LET p == ProcessTimeout(t, client.state.retry) IN
         IF p.alive
         THEN Ticked([client EXCEPT !.state.retry = p.state], FALSE, None)
         ELSE Ticked([client EXCEPT !.state = TimedOut], TRUE, None)
    ELSE IF client.state.tag = "Idle"
    THEN LET p == ProcessTimeout(t, client.state.retry) IN
         IF p.alive
         THEN Ticked([client EXCEPT !.state.retry = p.state], FALSE, None)
         ELSE Ticked([client EXCEPT !.state = TimedOut], FALSE,
                     Some(ClientDisconnect(client_id)))
    ELSE IF client.state.tag = "Connected"
    THEN Ticked([client EXCEPT !.state = Idle(RetryStateNew(t))], FALSE, None)
    ELSE Ticked(client, TRUE, None)

(***************************************************************************)
(* The timer loop of next_event (lines 207-229), on its own.  The ingress  *)
(* loop before it has no exit but a return, so no behaviour of Spec gets   *)
(* to line 207.  TimerSpec enters next_event at line 207 instead, from     *)
(* every table the ingress path can leave behind, and shows what the loop  *)
(* does when it runs.  pc is "timer" at the head of the loop (line 208).   *)
(***************************************************************************)
\* last_update stamps range over 0..MaxStamp.
MaxStamp == 1

TimerRetryStates ==
    [last_update : 0..MaxStamp, last_retry : {0}, retry_count : {0, 1}]

\* The states handle_client_connect and handle_packet leave a connection in.
TimerStates ==
    {PendingResponse(r) : r \in TimerRetryStates}
    \cup {Idle(r) : r \in TimerRetryStates}
    \cup {Disconnected}

\* Slot i is empty or holds client i, bound to address i.
TimerSlot(i) ==
    {None} \cup
    {Some([client_id |-> i, state |-> s,
           server_to_client_key |-> ServerToClientKey(i),
           client_to_server_key |-> ClientToServerKey(i),
           addr |-> i]) : s \in TimerStates}

TimerTables == {cl \in [Slots -> UNION {TimerSlot(i) : i \in Slots}] :
                   \A i \in Slots : cl[i] \in TimerSlot(i)}

\* The server time: the timeout after stamp 0, and one second later.
TimerTimes == {NETCODE_TIMEOUT_SECONDS, NETCODE_TIMEOUT_SECONDS + 1}

TimerInit ==
    /\ clients \in TimerTables
    /\ time \in TimerTimes
    /\ send_sequence = 0
    /\ challenge_sequence = 0
    /\ client_event_idx = 0
    /\ pc = "timer"
    /\ recv = NoRecv
    /\ now = None
    /\ result = NoResult
    /\ out = <<>>

\* One iteration of the loop that does not break (lines 212-225).  The slot
\* at the cursor is the cursor's value plus one: Vec indices start at 0.
TimerTick ==
    /\ pc = "timer"
    /\ client_event_idx < MaxClients
    /\ LET i == client_event_idx + 1
           t == IF clients[i] # None
                THEN TickClient(time, Unwrap(clients[i]))
                ELSE Ticked(<<>>, FALSE, None)
       IN  /\ clients' = [clients EXCEPT ![i] =
                            IF clients[i] = None \/ t.remove THEN None
                            ELSE Some(t.client)]
           /\ IF t.event # None
              THEN pc' = "host" /\ result' = Ok(t.event)
              ELSE pc' = "timer" /\ result' = result
    /\ client_event_idx' = client_event_idx + 1
    /\ UNCHANGED <<time, send_sequence, challenge_sequence, recv, now, out>>

\* The cursor is at the end of the table: break, and Ok(None) (lines
\* 208-210 and 228).
TimerEnd ==
    /\ pc = "timer"
    /\ client_event_idx >= MaxClients
    /\ pc' = "host"
    /\ result' = Ok(None)
    /\ UNCHANGED <<clients, time, send_sequence, challenge_sequence,
                   client_event_idx, recv, now, out>>

\* The host calls next_event again.
TimerEnter ==
    /\ pc = "host"
    /\ pc' = "timer"
    /\ result' = NoResult
    /\ UNCHANGED <<clients, time, send_sequence, challenge_sequence,
                   client_event_idx, recv, now, out>>

TimerNext ==
    \/ TimerTick
    \/ TimerEnd
    \/ TimerEnter

TimerSpec == TimerInit /\ [][TimerNext]_vars

(***************************************************************************)
(* Vocabulary of the properties.                                           *)
(***************************************************************************)
Conn(i) == Unwrap(clients[i])

\* This step is an iteration of the ingress loop in which a datagram
\* arrived and was handled.
Arrived == pc = "ingress" /\ pc' = "check" /\ recv'.tag = "Ok"

\* The slot bound to an address, the slot holding a client id.
BoundTo(addr) == {i \in Slots : clients[i] # None /\ Conn(i).addr = addr}
Holding(id) == {i \in Slots : clients[i] # None /\ Conn(i).client_id = id}
EmptySlots == {i \in Slots : clients[i] = None}

\* A ConnectionRequest of the server's version whose token is sealed under
\* connect_key.
WellFormedRequest(d) ==
    /\ d.kind = "ConnectionRequest"
    /\ d.version = NETCODE_VERSION_STRING
    /\ d.private_data.key = ConnectKey

\* A valid request, as section 4.3 defines it: well formed and not expired
\* on the clock reading clk.
ValidRequest(d, clk) ==
    /\ WellFormedRequest(d)
    /\ clk # None
    /\ d.token_expire > Unwrap(clk)

\* Every send_to of the step succeeded.
SendsAccepted(o) == \A k \in DOMAIN o : o[k].ok

Kinds(o) == [k \in DOMAIN o |-> o[k].packet.kind]

(***************************************************************************)
(* C1.  No two occupied slots of the client table hold the same client_id, *)
(* and no two occupied slots hold the same peer address.                   *)
(***************************************************************************)
C1_UniqueClients ==
    \A i, j \in Slots :
        (i # j /\ clients[i] # None /\ clients[j] # None)
            => /\ Conn(i).client_id # Conn(j).client_id
               /\ Conn(i).addr # Conn(j).addr

\* Two slots are occupied, and a request has just been handled.
C1_Witness ==
    /\ Cardinality(Occupied(clients)) >= 2
    /\ pc = "check"
    /\ recv.tag = "Ok"
    /\ recv.data.kind = "ConnectionRequest"

(***************************************************************************)
(* C2.  A valid ConnectionRequest from an address bound to no slot, for a  *)
(* client_id held by no slot, while a slot is empty, fills the first empty *)
(* slot with a connection in PendingResponse bound to the source address,  *)
(* sends exactly one Challenge to that address and yields                  *)
(* ClientConnect(client_id), which next_event returns.                     *)
(***************************************************************************)
C2_Case ==
    /\ Arrived
    /\ ValidRequest(recv'.data, now')
    /\ BoundTo(recv'.addr) = {}
    /\ Holding(recv'.data.private_data.client_id) = {}
    /\ EmptySlots # {}

C2_Effect ==
    LET id == recv'.data.private_data.client_id
        first == CHOOSE i \in EmptySlots : \A j \in EmptySlots : i <= j
    IN  /\ \A i \in Slots \ {first} : clients'[i] = clients[i]
        /\ clients'[first] # None
        /\ Unwrap(clients'[first]).client_id = id
        /\ Unwrap(clients'[first]).addr = recv'.addr
        /\ Unwrap(clients'[first]).state.tag = "PendingResponse"
        /\ Kinds(out') = <<"Challenge">>
        /\ out'[1].to = recv'.addr
        /\ result' = Ok(Some(ClientConnect(id)))

C3_Case(i) ==
    /\ Arrived
    /\ i \in BoundTo(recv'.addr)
    /\ Conn(i).state.tag = "PendingResponse"
    /\ recv'.data.kind = "Response"
    /\ recv'.data.key = Conn(i).client_to_server_key
    /\ recv'.data.token = [key |-> ChallengeKey, client_id |-> Conn(i).client_id]

C3_Effect(i) ==
    /\ result' = Ok(Some(ClientConnect(Conn(i).client_id)))
    /\ Unwrap(clients'[i]).state.tag = "Idle"
    /\ Unwrap(clients'[i]).state.retry.last_update = time

C3_Response == [][\A i \in Slots : C3_Case(i) => C3_Effect(i)]_vars

\* A Response has just completed a handshake, after the clock was advanced.
C3_Witness ==
    /\ pc = "check"
    /\ recv.tag = "Ok"
    /\ recv.data.kind = "Response"
    /\ time > 0
    /\ \E i \in BoundTo(recv.addr) :
          /\ result = Ok(Some(ClientConnect(Conn(i).client_id)))
          /\ Conn(i).state.tag = "Idle"
          /\ Conn(i).state.retry.last_update = time

(***************************************************************************)
(* C4.  With every slot occupied, a valid ConnectionRequest from an        *)
(* address bound to no slot yields ClientSlotFull, sends exactly one       *)
(* ConnectionDenied to the requester, sealed with the requester's          *)
(* server_to_client_key under a freshly incremented send_sequence, sends   *)
(* no Challenge and leaves every slot unchanged.                           *)
(***************************************************************************)
C4_Case ==
    /\ Arrived
    /\ ValidRequest(recv'.data, now')
    /\ BoundTo(recv'.addr) = {}
    /\ EmptySlots = {}

C4_Effect ==
    /\ result' = Ok(Some(ClientSlotFull))
    /\ Kinds(out') = <<"ConnectionDenied">>
    /\ out'[1].to = recv'.addr
    /\ out'[1].key = ServerToClientKey(recv'.data.private_data.client_id)
    /\ out'[1].sequence = send_sequence + 1
    /\ send_sequence' = send_sequence + 1
    /\ clients' = clients

C5_ExpiredNeverAdmitted ==
    [][(/\ Arrived
        /\ recv'.data.kind = "ConnectionRequest"
        /\ now' # None
        /\ recv'.data.token_expire <= Unwrap(now'))
            => Occupied(clients') = Occupied(clients)]_vars

(***************************************************************************)
(* C6.  A datagram from an address bound to no slot that is not a          *)
(* ConnectionRequest, or is of another version, or whose private data does *)
(* not unseal under connect_key, leaves the client table, send_sequence    *)
(* and challenge_sequence unchanged, sends nothing and yields no event.    *)
(***************************************************************************)
C6_Case ==
    /\ Arrived
    /\ BoundTo(recv'.addr) = {}
    /\ ~WellFormedRequest(recv'.data)

C6_Dropped ==
    [][C6_Case => /\ clients' = clients
                  /\ send_sequence' = send_sequence
                  /\ challenge_sequence' = challenge_sequence
                  /\ out' = <<>>
                  /\ result' = Ok(None)]_vars

\* A request of another version from a stranger has just been handled,
\* while a slot was free for it.
C6_Witness ==
    /\ pc = "check"
    /\ recv.tag = "Ok"
    /\ BoundTo(recv.addr) = {}
    /\ recv.data.kind = "ConnectionRequest"
    /\ recv.data.version # NETCODE_VERSION_STRING
    /\ EmptySlots # {}
    /\ result = Ok(None)

(***************************************************************************)
(* C7.  send_sequence and challenge_sequence never decrease; every         *)
(* datagram sent is encoded with a send_sequence greater than the counter  *)
(* stood at before the step, hence than that of every datagram sent        *)
(* before, and every challenge token is sealed with a challenge_sequence   *)
(* greater than every value used before.                                   *)
(***************************************************************************)
C7_Sequences ==
    [][/\ send_sequence' >= send_sequence
       /\ challenge_sequence' >= challenge_sequence
       /\ \A k \in DOMAIN out' :
            /\ out'[k].sequence > send_sequence
            /\ out'[k].sequence <= send_sequence'
            /\ \A j \in DOMAIN out' : j < k => out'[j].sequence < out'[k].sequence
            /\ out'[k].packet.kind = "Challenge" =>
                 /\ out'[k].packet.token_sequence > challenge_sequence
                 /\ out'[k].packet.token_sequence <= challenge_sequence']_vars

\* A Challenge has just been sent after two other datagrams.
C7_Witness ==
    /\ pc = "check"
    /\ Kinds(out) = <<"Challenge">>
    /\ out[1].sequence = 3
    /\ out[1].packet.token_sequence >= 2

(***************************************************************************)
(* C8.  For a connection in any state, a non-empty datagram from its peer  *)
(* address that does not decode under its client_to_server_key is not      *)
(* reported as an error: it sets the state to Disconnected and yields      *)
(* ClientDisconnect with the connection's client_id.                       *)
(***************************************************************************)
C8_Case(i) ==
    /\ Arrived
    /\ i \in BoundTo(recv'.addr)
    /\ recv'.data.kind \notin {"Empty", "ConnectionRequest"}
    /\ recv'.data.key # Conn(i).client_to_server_key

C8_DecodeFailure ==
    [][\A i \in Slots :
          C8_Case(i) =>
              /\ result' = Ok(Some(ClientDisconnect(Conn(i).client_id)))
              /\ Unwrap(clients'[i]).state = Disconnected
              /\ \A j \in Slots \ {i} : clients'[j] = clients[j]]_vars

\* A datagram sealed under another key has just disconnected a connection.
C8_Witness ==
    /\ pc = "check"
    /\ recv.tag = "Ok"
    /\ recv.data.kind = "Payload"
    /\ \E i \in BoundTo(recv.addr) :
          /\ recv.data.key # Conn(i).client_to_server_key
          /\ Conn(i).state = Disconnected
          /\ result = Ok(Some(ClientDisconnect(Conn(i).client_id)))

(***************************************************************************)
(* C9.  Every call of next_event terminates: when the receive would block  *)
(* and the timer sweep has no event to yield (only a tick of an Idle       *)
(* connection yields one), next_event returns None.                        *)
(***************************************************************************)
NoIdle == \A i \in Slots : clients[i] # None => Conn(i).state.tag # "Idle"

C9_WouldBlockReturnsNone ==
    [][(pc = "check" /\ recv.tag = "WouldBlock" /\ NoIdle)
          => (pc' = "host" /\ result' = Ok(None))]_vars

(***************************************************************************)
(* C10.  Once a connection is Idle and update has advanced the time by     *)
(* more than the inactivity timeout with no datagram from its peer, the    *)
(* drain of next_event returns a ClientDisconnect for it: when the receive *)
(* would block, the call returns the ClientDisconnect of a connection      *)
(* whose timeout has elapsed.                                              *)
(***************************************************************************)
ExpiredIdle ==
    {i \in Slots :
        /\ clients[i] # None
        /\ Conn(i).state.tag = "Idle"
        /\ time - Conn(i).state.retry.last_update > NETCODE_TIMEOUT_SECONDS}

C10_IdleTimeoutReported ==
    [][(pc = "check" /\ recv.tag = "WouldBlock" /\ ExpiredIdle # {})
          => /\ pc' = "host"
             /\ \E i \in ExpiredIdle :
                   result' = Ok(Some(ClientDisconnect(Conn(i).client_id)))]_vars

(***************************************************************************)
(* C11.  A slot whose connection is Disconnected or TimedOut is emptied by *)
(* the next event drain: a call of next_event that finds nothing to        *)
(* receive goes on to the sweep of the table, it does not go back to       *)
(* recv_from with that slot still occupied.                                *)
(***************************************************************************)
DeadSlots ==
    {i \in Slots :
        clients[i] # None /\ Conn(i).state.tag \in {"Disconnected", "TimedOut"}}

C11_DeadSlotsReclaimed ==
    [][\A i \in DeadSlots :
          (pc = "check" /\ recv.tag = "WouldBlock")
              => ~(pc' = "ingress" /\ clients'[i] # None)]_vars

(***************************************************************************)
(* C12.  A receive error other than would-block, and a failure to send the *)
(* ConnectionDenied or the Challenge during admission, are returned to the *)
(* host by that call of next_event as an error; a failed denial leaves the *)
(* client table as it was before the call.                                 *)
(***************************************************************************)
\* The iteration ended with a receive error or a failed send of admission.
C12_Case ==
    /\ pc = "check"
    /\ result.tag = "Err"
    /\ result.err \in {"SocketError", "SendError"}

C12_ErrorsSurfaced ==
    [][C12_Case => (pc' = "host" /\ result' = result)]_vars

(***************************************************************************)
(* C13.  Once a slot is bound to a peer address, a datagram from another   *)
(* source address never changes that slot's state or retry record and      *)
(* never yields an event carrying that slot's client_id, even when the     *)
(* datagram is a valid ConnectionRequest for the same client_id.           *)
(***************************************************************************)
C13_AddressBinding ==
    [][\A i \in Slots :
          (/\ Arrived
           /\ clients[i] # None
           /\ recv'.addr # Conn(i).addr)
              => /\ clients'[i] = clients[i]
                 /\ ~(/\ IsEvent(result')
                      /\ Unwrap(result'.event).type # "ClientSlotFull"
                      /\ Unwrap(result'.event).client_id = Conn(i).client_id)]_vars

(***************************************************************************)
(* C14.  The event cursor always satisfies 0 <= cursor <= capacity, and    *)
(* when a sweep ends with the cursor at the capacity (next_event returns   *)
(* None) the cursor is reset to 0, so that the following call ticks the    *)
(* slots again from slot 0.                                                *)
(***************************************************************************)
C14_CursorResets ==
    [][/\ client_event_idx' \in 0..MaxClients
       /\ (pc = "timer" /\ client_event_idx >= MaxClients /\ pc' = "host")
             => client_event_idx' = 0]_vars

(***************************************************************************)
(* C15.  A tick of a connection in PendingResponse or Idle declares it     *)
(* timed out exactly when time - last_update is strictly greater than the  *)
(* inactivity timeout; when the two are equal the connection is kept in    *)
(* its state.                                                              *)
(***************************************************************************)
\* The slot the timer loop is about to tick.
AtCursor == client_event_idx + 1

\* This step ticks a connection in PendingResponse or Idle.
C15_Case ==
    /\ pc = "timer"
    /\ client_event_idx < MaxClients
    /\ clients[AtCursor] # None
    /\ Conn(AtCursor).state.tag \in {"PendingResponse", "Idle"}

\* The tick left the connection in its slot and in its state.
KeptByTick ==
    /\ clients'[AtCursor] # None
    /\ Unwrap(clients'[AtCursor]).state.tag = Conn(AtCursor).state.tag

C15_TimeoutBoundary ==
    [][C15_Case =>
          (KeptByTick <=>
              time - Conn(AtCursor).state.retry.last_update
                  <= NETCODE_TIMEOUT_SECONDS)]_vars

(***************************************************************************)
(* C17.  The tick of an Idle connection whose inactivity timeout has       *)
(* elapsed yields ClientDisconnect with that connection's own client_id    *)
(* and sets the connection's state to TimedOut.                            *)
(***************************************************************************)
C17_Case ==
    /\ pc = "timer"
    /\ client_event_idx < MaxClients
    /\ clients[AtCursor] # None
    /\ Conn(AtCursor).state.tag = "Idle"
    /\ time - Conn(AtCursor).state.retry.last_update > NETCODE_TIMEOUT_SECONDS

C17_TickReportsOwnId ==
    [][C17_Case =>
          /\ result' = Ok(Some(ClientDisconnect(Conn(AtCursor).client_id)))
          /\ clients'[AtCursor] # None
          /\ Unwrap(clients'[AtCursor]).state = TimedOut]_vars

(***************************************************************************)
(* C16.  For every connection holding a retry record, last_update never    *)
(* decreases over the connection's lifetime and is never greater than the  *)
(* server's time, after any sequence of update calls and processed         *)
(* datagrams.                                                              *)
(***************************************************************************)
HasRetry(c) == c.state.tag \in {"PendingResponse", "Idle"}

\* No retry record is stamped later than the server's time.
StampsInPast ==
    \A i \in Slots :
        (clients[i] # None /\ HasRetry(Conn(i)))
            => Conn(i).state.retry.last_update <= time

\* This step decreases the last_update of no connection.
StampsKept ==
    \A i \in Slots :
        (/\ clients[i] # None /\ HasRetry(Conn(i))
         /\ clients'[i] # None /\ HasRetry(Unwrap(clients'[i])))
            => Unwrap(clients'[i]).state.retry.last_update
                   >= Conn(i).state.retry.last_update

ValidArrival ==
    \/ ValidRequest(recv'.data, now')
    \/ (now' = None /\ ValidRequest(recv'.data, Some(0)))

C18_Case(i) ==
    /\ Arrived
    /\ ValidArrival
    /\ i \in Holding(recv'.data.private_data.client_id)
    /\ Conn(i).state.tag = "PendingResponse"

C18_Effect(i) ==
    /\ Occupied(clients') = Occupied(clients)
    /\ Unwrap(clients'[i]).state.tag = "PendingResponse"
    /\ Unwrap(clients'[i]).state.retry.last_retry = 0
    /\ Unwrap(clients'[i]).state.retry.retry_count
           = Conn(i).state.retry.retry_count + 1
    /\ Kinds(out') = <<"Challenge">>

C18_Retransmission == [][\A i \in Slots : C18_Case(i) => C18_Effect(i)]_vars

(***************************************************************************)
(* C19.  For a connection in Idle, a datagram from its peer address that   *)
(* decodes under its client_to_server_key is handled as follows:           *)
(* Payload(len) yields Packet(client_id, len) and keeps Idle with a fresh  *)
(* retry record (last_update = the server time); KeepAlive yields no event *)
(* and keeps Idle with a fresh retry record; Disconnect and every other    *)
(* kind yield ClientDisconnect(client_id) and the state Disconnected.      *)
(***************************************************************************)
C19_Case(i) ==
    /\ Arrived
    /\ i \in BoundTo(recv'.addr)
    /\ Conn(i).state.tag = "Idle"
    /\ PacketDecode(recv'.data, Some(Conn(i).client_to_server_key)) # None

C19_Effect(i) ==
    LET d == recv'.data
        after == Unwrap(clients'[i])
    IN  /\ clients'[i] # None
        /\ \A j \in Slots \ {i} : clients'[j] = clients[j]
        /\ d.kind = "Payload" =>
              /\ result' = Ok(Some(Packet(Conn(i).client_id, d.len)))
              /\ after.state = Idle(RetryStateNew(time))
        /\ d.kind = "KeepAlive" =>
              /\ result' = Ok(None)
              /\ after.state = Idle(RetryStateNew(time))
        /\ d.kind \notin {"Payload", "KeepAlive"} =>
              /\ result' = Ok(Some(ClientDisconnect(Conn(i).client_id)))
              /\ after.state = Disconnected

C19_IdleHandling == [][\A i \in Slots : C19_Case(i) => C19_Effect(i)]_vars

\* A KeepAlive has just been handled for an Idle connection, after the
\* time was advanced: the retry record is fresh and nothing is reported.
C19_Witness ==
    /\ pc = "check"
    /\ recv.tag = "Ok"
    /\ recv.data.kind = "KeepAlive"
    /\ result = Ok(None)
    /\ time > 0
    /\ \E i \in BoundTo(recv.addr) :
          /\ recv.data.key = Conn(i).client_to_server_key
          /\ Conn(i).state = Idle(RetryStateNew(time))

(***************************************************************************)
(* C20.  No Packet(client_id, len) event is returned for a connection      *)
(* before that connection has received a Response whose challenge token    *)
(* unsealed: a Packet event is only yielded for a connection that is Idle  *)
(* (or Connected), a connection only becomes Idle by such a Response; a    *)
(* Payload arriving in PendingResponse yields ClientDisconnect and the     *)
(* state Disconnected, and a connection in Disconnected or TimedOut never  *)
(* yields a Packet event.                                                  *)
(***************************************************************************)
Established(c) == c.state.tag \in {"Idle", "Connected"}

\* A Packet event is yielded by the handling of a datagram (any other step
\* only carries it to the host), for an established connection, the one
\* bound to the source address.
PacketOnlyEstablished ==
    (IsEvent(result') /\ Unwrap(result'.event).type = "Packet")
        => \/ ~Arrived /\ result' = result
           \/ /\ Arrived
              /\ \E i \in BoundTo(recv'.addr) :
                    /\ Established(Conn(i))
                    /\ Unwrap(result'.event).client_id = Conn(i).client_id

\* A connection that becomes established in this step was in
\* PendingResponse and received a Response whose token unseals under
\* challenge_key.
EstablishedByResponse ==
    \A i \in Slots :
        (/\ clients'[i] # None
         /\ Established(Unwrap(clients'[i]))
         /\ ~(clients[i] # None /\ Established(Conn(i))))
            => /\ Arrived
               /\ i \in BoundTo(recv'.addr)
               /\ Conn(i).state.tag = "PendingResponse"
               /\ recv'.data.kind = "Response"
               /\ ResponseDecode(recv'.data, ChallengeKey) # None

\* A Payload that decodes for a connection in PendingResponse.
PayloadWhilePending ==
    \A i \in Slots :
        (/\ Arrived
         /\ i \in BoundTo(recv'.addr)
         /\ Conn(i).state.tag = "PendingResponse"
         /\ recv'.data.kind = "Payload"
         /\ recv'.data.key = Conn(i).client_to_server_key)
            => /\ result' = Ok(Some(ClientDisconnect(Conn(i).client_id)))
               /\ Unwrap(clients'[i]).state = Disconnected

\* A datagram for a connection in Disconnected or TimedOut.
NoPacketWhenDead ==
    \A i \in Slots :
        (/\ Arrived
         /\ i \in BoundTo(recv'.addr)
         /\ Conn(i).state.tag \in {"Disconnected", "TimedOut"})
            => ~(IsEvent(result') /\ Unwrap(result'.event).type = "Packet")

C20_NoPacketBeforeResponse ==
    [][/\ PacketOnlyEstablished
       /\ EstablishedByResponse
       /\ PayloadWhilePending
       /\ NoPacketWhenDead]_vars

\* A Payload sealed under the connection's key has just disconnected a
\* connection that was waiting for its Response.
C20_Witness ==
    /\ pc = "check"
    /\ recv.tag = "Ok"
    /\ recv.data.kind = "Payload"
    /\ \E i \in BoundTo(recv.addr) :
          /\ recv.data.key = Conn(i).client_to_server_key
          /\ Conn(i).state = Disconnected
          /\ result = Ok(Some(ClientDisconnect(Conn(i).client_id)))

(***************************************************************************)
(* C21.  Whenever the handling of a Response yields ClientConnect(id), id  *)
(* is the client_id of the connection whose peer address sent the Response *)
(* and whose state has just become Idle; a Response that carries the       *)
(* challenge token issued for another client_id never yields ClientConnect *)
(* naming that other client.                                               *)
(***************************************************************************)
\* This step handles a Response from the peer address of slot i and yields
\* a ClientConnect.
C21_Case(i) ==
    /\ Arrived
    /\ i \in BoundTo(recv'.addr)
    /\ recv'.data.kind = "Response"
    /\ IsEvent(result')
    /\ Unwrap(result'.event).type = "ClientConnect"

C21_ConnectNamesSender ==
    [][\A i \in Slots :
          C21_Case(i) =>
              /\ Unwrap(result'.event).client_id = Conn(i).client_id
              /\ Unwrap(clients'[i]).state.tag = "Idle"]_vars

(***************************************************************************)
(* C22.  Between the creation of a slot for a connection and the emptying  *)
(* of that slot at most one ClientDisconnect is returned for the           *)
(* connection: a connection already in Disconnected or TimedOut yields no  *)
(* further ClientDisconnect, whatever datagram arrives from its peer       *)
(* address.                                                                *)
(***************************************************************************)
C22_AtMostOneDisconnect ==
    [][\A i \in DeadSlots :
          (Arrived /\ i \in BoundTo(recv'.addr))
              => ~(/\ IsEvent(result')
                   /\ Unwrap(result'.event).type = "ClientDisconnect")]_vars

====
